---- MODULE Spec2Model ----
(***************************************************************************)
(* A model of the Intra tunnel: tunnel construction and DNS-transport      *)
(* reconfiguration (tunnel/intra.go) and the UDP flow manager              *)
(* (tunnel/intra/udp.go): Connect, ReceiveTo, Close, the per-flow read     *)
(* task fetchUDPInput and the asynchronous DNS-transport query doDoh.      *)
(*                                                                         *)
(* Every goroutine is a process with a program counter.  A step is one     *)
(* statement, or one critical section that runs with the lock both taken   *)
(* and released inside it.  `t.upload += n` of ReceiveTo is a load and a   *)
(* store, since several ReceiveTo calls may run at once and the code does  *)
(* not synchronise the tracker's fields.                                   *)
(***************************************************************************)
EXTENDS Integers, Sequences, FiniteSets, TLC

\* ----------------------------------------------------------------- bounds
\* Calls made into the tunnel and the flow manager over one run.
MaxCalls == 3
\* Datagrams the real socket delivers to the read task over one run.
MaxRecv == 2

\* ------------------------------------------------------------- the values
Nil == "nil"
None == "none"
Transports == {"T1", "T2"}
DnsValues == Transports \cup {Nil}

Handles == {"h1"}
Threads == {"t1", "t2"}
Ctor == "ctor"
Procs == {Ctor} \cup Threads \cup Handles

\* The addresses: the fake resolver, the true resolver, and a third host that
\* shares its IP with the one and its port with the other.
FakeDNS == [ip |-> "10.111.222.3", port |-> 53]
TrueDNS == [ip |-> "127.0.0.1", port |-> 5353]
Other == [ip |-> "127.0.0.1", port |-> 53]
Dests == {FakeDNS, Other}
Senders == {TrueDNS, Other}

\* Payloads, as byte sequences: too short for a query id, id 0x1234, id 0x1235.
Payloads == {<<7>>, <<18, 52>>, <<18, 53>>}

VARIABLES
    pc,         \* pc[p]: the position of the constructor, a caller, a read task
    loc,        \* loc[t]: the arguments and locals of caller t's current call
    ncalls,     \* calls begun so far
    nrecv,      \* datagrams received so far
    panicked,   \* a goroutine has panicked: the process is gone
    \* the tunnel (intra.go)
    nic,        \* "none" | "disabled" | "enabled"
    promisc,    \* promiscuous mode is on
    udpReg,     \* the UDP handler is registered
    tcpReg,     \* the TCP forwarder is registered
    dohdns,     \* the constructor's initial transport
    tdns,       \* intratunnel.dns
    tcpdns,     \* the TCP handler's transport
    \* the UDP handler (udp.go)
    udns,       \* udpHandler.dns
    lock,       \* the holder of udpHandler's mutex, or None
    used,       \* the handles Connect was called on
    udpConns,   \* the keys of udpHandler.udpConns
    tr,         \* tr[h]: the tracker made for h
    sock,       \* sock[h]: tracker.conn: "none" | "open" | "closed"
    rdgram,     \* rdgram[h]: the datagram the read task has in hand; simple:
                \* the flow was not complex when the datagram was classified
    doh,        \* the doDoh goroutines running
    \* what the collaborators saw
    sockCloses, \* sockCloses[h]: calls of tracker.conn.Close
    vifCloses,  \* vifCloses[h]: calls of conn.Close (the handle's release)
    nsum,       \* nsum[h]: summaries delivered to the listener
    summary,    \* summary[h]: the last summary delivered
    \* history
    sent,       \* sent[h]: payload bytes of the ReceiveTo calls that found h
    rcvd,       \* rcvd[h]: bytes ReadFrom returned to h's read task
    raced,      \* raced[h]: a call on h overlapped a counter update
    traffic,    \* traffic[h]: "none" | "plain" | "dns"
    uplog,      \* uplog[h]: the uploads routed so far, while all of them went
                \* to the fake resolver with no transport set: the first
                \* one's id, and whether one was short or had another id
    cause       \* cause[h]: why the read task left its loop

vars == <<pc, loc, ncalls, nrecv, panicked, nic, promisc, udpReg, tcpReg,
          dohdns, tdns, tcpdns, udns, lock, used, udpConns, tr, sock, rdgram,
          doh, sockCloses, vifCloses, nsum, summary, sent, rcvd, raced,
          traffic, uplog, cause>>

tunnelVars == <<nic, promisc, udpReg, tcpReg, dohdns>>
dnsVars == <<tdns, tcpdns, udns>>
tableVars == <<lock, used, udpConns, tr>>
sockVars == <<sock, sockCloses>>
listenerVars == <<nsum, summary>>
histVars == <<sent, rcvd, raced, traffic, uplog, cause>>
callVars == <<loc, ncalls, nrecv, panicked>>
flowVars == <<udns, lock, used, udpConns, tr, sock, rdgram, doh, sockCloses,
              vifCloses, nsum, summary, sent, rcvd, raced, traffic, uplog,
              cause>>

\* ------------------------------------------------------------ pure helpers

\* addr.IP.Equal(x.IP) && addr.Port == x.Port
AddrEq(a, b) == a.ip = b.ip /\ a.port = b.port

Uint16(x) == x % 65536

\* queryid: -1 for a payload too short, else its first two bytes, big-endian.
queryid(data) ==
    IF Len(data) < 2 THEN -1 ELSE ((data[1] * 256) + data[2]) % 65536

\* A summary with its two counters swapped.
UDPSocketSummarySwapped(t) == [up |-> t.download, down |-> t.upload]

\* &UDPSocketSummary{t.upload, t.download, duration}
UDPSocketSummary(t) == [up |-> t.upload, down |-> t.download]

makeTracker == [upload |-> 0, download |-> 0, complex |-> FALSE, queryid |-> 0]

\* No upload routed yet; and the log of a flow that had an upload to another
\* address, or one routed while a transport was set.
NoUploads == [first |-> -2, mixed |-> FALSE, pure |-> TRUE]
OtherUploads == [first |-> -2, mixed |-> FALSE, pure |-> FALSE]

NoLoc == [h |-> None, data |-> <<>>, addr |-> FakeDNS, tmp |-> 0,
          viaDoh |-> FALSE, seen |-> {}, dns |-> Nil, id |-> 0]
NoDgram == [data |-> <<>>, from |-> Other, src |-> Other, simple |-> FALSE]

\* The handle a process in Close works on: a read task closes its own flow.
HandleOf(p) == IF p \in Handles THEN p ELSE loc[p].h

\* Where a process is once its call has returned.
Returned(p) ==
    IF p = Ctor THEN "enable" ELSE IF p \in Handles THEN "fi_done" ELSE "idle"

Return(p) ==
    /\ pc' = [pc EXCEPT ![p] = Returned(p)]
    /\ loc' = IF p \in Threads THEN [loc EXCEPT ![p] = NoLoc] ELSE loc

Goto(p, l) == pc' = [pc EXCEPT ![p] = l]

Alive == ~panicked

\* The callers are alike: a new call runs on the first caller that is free.
Before(t) == IF t = "t2" THEN {"t1"} ELSE {}
Free(t) == pc[t] = "idle" /\ \A u \in Before(t) : pc[u] # "idle"

\* ------------------------------------------------------------------- Init
\* Before NewIntraTunnel runs; the initial transport is given or not.
Init ==
    /\ pc = [p \in Procs |-> IF p = Ctor THEN "endpoint"
                             ELSE IF p \in Threads THEN "idle" ELSE "fi_none"]
    /\ loc = [t \in Threads |-> NoLoc]
    /\ ncalls = 0
    /\ nrecv = 0
    /\ panicked = FALSE
    /\ nic = "none"
    /\ promisc = FALSE
    /\ udpReg = FALSE
    /\ tcpReg = FALSE
    /\ dohdns \in {Nil, "T1"}
    /\ tdns = Nil
    /\ tcpdns = Nil
    /\ udns = Nil
    /\ lock = None
    /\ used = {}
    /\ udpConns = {}
    /\ tr = [h \in Handles |-> makeTracker]
    /\ sock = [h \in Handles |-> "none"]
    /\ rdgram = [h \in Handles |-> NoDgram]
    /\ doh = {}
    /\ sockCloses = [h \in Handles |-> 0]
    /\ vifCloses = [h \in Handles |-> 0]
    /\ nsum = [h \in Handles |-> 0]
    /\ summary = [h \in Handles |-> [up |-> 0, down |-> 0]]
    /\ sent = [h \in Handles |-> 0]
    /\ rcvd = [h \in Handles |-> 0]
    /\ raced = [h \in Handles |-> FALSE]
    /\ traffic = [h \in Handles |-> "none"]
    /\ uplog = [h \in Handles |-> NoUploads]
    /\ cause = [h \in Handles |-> None]

\* ------------------------------------------------ NewIntraTunnel (intra.go)
\* A constructor step that only moves on, or fails: `return nil, err`.
CtorMove(from, to) ==
    /\ pc[Ctor] = from
    /\ \E ok \in BOOLEAN : Goto(Ctor, IF ok THEN to ELSE "failed")
    /\ UNCHANGED <<callVars, tunnelVars, tdns, tcpdns, flowVars>>

\* fdbased.New
NewEndpoint == CtorMove("endpoint", "createnic")

\* A NIC that is created enabled.
NICCreatedEnabled == "enabled"

\* stack.NICOptions{Disabled: true}
NICCreatedAs == "disabled"

\* netstack.CreateNICWithOptions
CreateNIC ==
    /\ pc[Ctor] = "createnic"
    /\ \E ok \in BOOLEAN :
          /\ Goto(Ctor, IF ok THEN "promisc" ELSE "failed")
          /\ nic' = IF ok THEN NICCreatedAs ELSE nic
    /\ UNCHANGED <<callVars, promisc, udpReg, tcpReg, dohdns, tdns, tcpdns,
                   flowVars>>

\* A constructor that does not test the result of SetPromiscuousMode.
SetPromiscuousModeUnchecked ==
    /\ pc[Ctor] = "promisc"
    /\ \E ok \in BOOLEAN :
          /\ Goto(Ctor, "res_udpfake")
          /\ promisc' = ok
    /\ UNCHANGED <<callVars, nic, udpReg, tcpReg, dohdns, tdns, tcpdns,
                   flowVars>>

\* netstack.SetPromiscuousMode
SetPromiscuousMode ==
    /\ pc[Ctor] = "promisc"
    /\ \E ok \in BOOLEAN :
          /\ Goto(Ctor, IF ok THEN "res_udpfake" ELSE "failed")
          /\ promisc' = ok
    /\ UNCHANGED <<callVars, nic, udpReg, tcpReg, dohdns, tdns, tcpdns,
                   flowVars>>

\* registerConnectionHandlers: the four resolutions and the two registrations.
ResolveUDPFake == CtorMove("res_udpfake", "res_udptrue")

ResolveUDPTrue == CtorMove("res_udptrue", "reg_udp")

\* intra.NewUDPHandler; core.RegisterUDPConnHandler
RegisterUDP ==
    /\ pc[Ctor] = "reg_udp"
    /\ Goto(Ctor, "res_tcpfake")
    /\ udpReg' = TRUE
    /\ UNCHANGED <<callVars, nic, promisc, tcpReg, dohdns, tdns, tcpdns,
                   flowVars>>

ResolveTCPFake == CtorMove("res_tcpfake", "res_tcptrue")

ResolveTCPTrue == CtorMove("res_tcptrue", "reg_tcp")

\* `if dohdns != nil { t.SetDNS(dohdns) }`, then EnableNIC.
AfterRegister == IF dohdns # Nil THEN "sd_tunnel" ELSE "enable"

\* intra.NewTCPHandler; tcp.NewForwarder; SetTransportProtocolHandler
RegisterTCP ==
    /\ pc[Ctor] = "reg_tcp"
    /\ Goto(Ctor, AfterRegister)
    /\ tcpReg' = TRUE
    /\ UNCHANGED <<callVars, nic, promisc, udpReg, dohdns, tdns, tcpdns,
                   flowVars>>

\* netstack.EnableNIC, and `return t, nil`
EnableNIC ==
    /\ pc[Ctor] = "enable"
    /\ \E ok \in BOOLEAN :
          /\ Goto(Ctor, IF ok THEN "done" ELSE "failed")
          /\ nic' = IF ok THEN "enabled" ELSE nic
    /\ UNCHANGED <<callVars, promisc, udpReg, tcpReg, dohdns, tdns, tcpdns,
                   flowVars>>

\* ---------------------------------------------- intratunnel.SetDNS (intra.go)
\* The transport a process in SetDNS was called with.
ArgDns(p) == IF p = Ctor THEN dohdns ELSE loc[p].dns

\* A caller who holds the tunnel calls SetDNS.
BeginSetDNS(t, d) ==
    /\ Alive /\ Free(t) /\ pc[Ctor] = "done" /\ ncalls < MaxCalls
    /\ Goto(t, "sd_tunnel")
    /\ loc' = [loc EXCEPT ![t] = [NoLoc EXCEPT !.dns = d]]
    /\ ncalls' = ncalls + 1
    /\ UNCHANGED <<nrecv, panicked, tunnelVars, tdns, tcpdns, flowVars>>

\* t.dns = dns
SetDNSTunnel(p) ==
    /\ Alive /\ pc[p] = "sd_tunnel"
    /\ Goto(p, "sd_udp")
    /\ tdns' = ArgDns(p)
    /\ UNCHANGED <<callVars, tunnelVars, tcpdns, flowVars>>

\* A call or query in flight notes each transport the handler comes to hold.
NoteSeen(l, v) == [l EXCEPT !.seen = @ \cup {v}]

\* udpHandler.SetDNS(dns): the UDP handler stores the transport.
UdpSetDNS(d) ==
    /\ udns' = d
    /\ loc' = [t \in Threads |->
                 IF pc[t] \in {"rt_lookup", "rt_route"}
                 THEN NoteSeen(loc[t], d) ELSE loc[t]]
    /\ doh' = {IF q.stage = "query" THEN NoteSeen(q, d) ELSE q : q \in doh}

\* TCPHandler.SetDNS(dns): the TCP handler stores the transport.
TcpSetDNS(d) == tcpdns' = d

\* t.udp.SetDNS(dns)
SetDNSUdp(p) ==
    /\ Alive /\ pc[p] = "sd_udp"
    /\ Goto(p, "sd_tcp")
    /\ UdpSetDNS(ArgDns(p))
    /\ UNCHANGED <<ncalls, nrecv, panicked, tunnelVars, tdns, tcpdns, lock,
                   used, udpConns, tr, sock, rdgram, sockCloses, vifCloses,
                   nsum, summary, histVars>>

\* t.tcp.SetDNS(dns), and SetDNS returns.
SetDNSTcp(p) ==
    /\ Alive /\ pc[p] = "sd_tcp"
    /\ TcpSetDNS(ArgDns(p))
    /\ Return(p)
    /\ UNCHANGED <<ncalls, nrecv, panicked, tunnelVars, tdns, flowVars>>

\* The transport is reassigned while flows run: what the UDP handler sees of a
\* SetDNS call is the one store into its field.
Reassign(d) ==
    /\ Alive /\ pc[Ctor] = "done" /\ ncalls < MaxCalls /\ d # udns
    /\ UdpSetDNS(d)
    /\ ncalls' = ncalls + 1
    /\ UNCHANGED <<pc, nrecv, panicked, tunnelVars, tdns, tcpdns, lock, used,
                   udpConns, tr, sock, rdgram, sockCloses, vifCloses, nsum,
                   summary, histVars>>

\* ------------------------------------------------ udpHandler.Connect (udp.go)
\* The stack dispatches a flow only through an enabled NIC.
Dispatching == Alive /\ nic = "enabled"

BeginCall(t, l) ==
    /\ Dispatching /\ Free(t) /\ ncalls < MaxCalls
    /\ Goto(t, l)
    /\ ncalls' = ncalls + 1

\* A Connect call for h has not returned yet.
Connecting(h) ==
    \E t \in Threads :
        pc[t] \in {"co_listen", "co_insert", "co_go"} /\ loc[t].h = h

\* The stack calls Connect once for a new flow handle, and makes its other
\* calls for the handle once Connect has returned.
BeginConnect(t, h) ==
    /\ h \notin used /\ \A u \in Threads : loc[u].h # h
    /\ BeginCall(t, "co_listen")
    /\ loc' = [loc EXCEPT ![t] = [NoLoc EXCEPT !.h = h]]
    /\ used' = used \cup {h}
    /\ UNCHANGED <<nrecv, panicked, tunnelVars, dnsVars, lock, udpConns, tr,
                   sockVars, rdgram, doh, vifCloses, listenerVars, histVars>>

\* A Connect that goes on after a failed bind.
AfterListenUnchecked(ok) == "co_insert"

\* `if err != nil { ...; return err }`: where Connect is after net.ListenUDP.
AfterListen(ok) == IF ok THEN "co_insert" ELSE "idle"

\* pc, err := net.ListenUDP(...); on an error `return err`.
ConnectListen(t) ==
    /\ Alive /\ pc[t] = "co_listen"
    /\ \E ok \in BOOLEAN :
          /\ sock' = IF ok THEN [sock EXCEPT ![loc[t].h] = "open"] ELSE sock
          /\ IF AfterListen(ok) # "idle"
             THEN Goto(t, AfterListen(ok)) /\ UNCHANGED loc
             ELSE Return(t)
    /\ UNCHANGED <<ncalls, nrecv, panicked, tunnelVars, dnsVars, tableVars,
                   rdgram, doh, sockCloses, vifCloses, listenerVars,
                   histVars>>

\* t := makeTracker(pc); h.Lock(); h.udpConns[conn] = t; h.Unlock()
ConnectInsert(t) ==
    /\ Alive /\ pc[t] = "co_insert" /\ lock = None
    /\ Goto(t, "co_go")
    /\ udpConns' = udpConns \cup {loc[t].h}
    /\ tr' = [tr EXCEPT ![loc[t].h] = makeTracker]
    /\ UNCHANGED <<callVars, tunnelVars, dnsVars, lock, used, sockVars,
                   rdgram, doh, vifCloses, listenerVars, histVars>>

\* go h.fetchUDPInput(conn, t); return nil
ConnectGo(t) ==
    /\ Alive /\ pc[t] = "co_go"
    /\ pc' = [pc EXCEPT ![t] = "idle", ![loc[t].h] = "fi_read"]
    /\ loc' = [loc EXCEPT ![t] = NoLoc]
    /\ UNCHANGED <<ncalls, nrecv, panicked, tunnelVars, dnsVars, tableVars,
                   sockVars, rdgram, doh, vifCloses, listenerVars, histVars>>

\* ---------------------------------------------- udpHandler.ReceiveTo (udp.go)
BeginReceiveTo(t, h, data, addr) ==
    /\ ~Connecting(h)
    /\ BeginCall(t, "rt_lookup")
    /\ loc' = [loc EXCEPT ![t] = [NoLoc EXCEPT !.h = h, !.data = data,
                                   !.addr = addr, !.seen = {udns},
                                   !.id = ncalls + 1]]
    /\ traffic' = IF AddrEq(addr, FakeDNS)
                  THEN [traffic EXCEPT ![h] = "dns"] ELSE traffic
    /\ UNCHANGED <<nrecv, panicked, tunnelVars, dnsVars, tableVars, sockVars,
                   rdgram, doh, vifCloses, listenerVars, sent, rcvd, raced,
                   uplog, cause>>

\* A ReceiveTo call on h that has found the tracker and not yet stored upload.
Counting(t, h) ==
    pc[t] \in {"rt_route", "rt_load", "rt_store"} /\ loc[t].h = h

\* A lookup whose result is not tested.
AfterLookupUnchecked(ok1) == "rt_route"

\* `if !ok1 { return fmt.Errorf(...) }`: where ReceiveTo is after the lookup.
AfterLookup(ok1) == IF ok1 THEN "rt_route" ELSE "idle"

\* h.Lock(); t, ok1 := h.udpConns[conn]; h.Unlock(); if !ok1 { return error }
ReceiveToLookup(t) ==
    /\ Alive /\ pc[t] = "rt_lookup" /\ lock = None
    /\ LET h == loc[t].h IN
          IF AfterLookup(h \in udpConns) # "idle"
          THEN /\ Goto(t, AfterLookup(h \in udpConns))
               /\ sent' = [sent EXCEPT ![h] = @ + Len(loc[t].data)]
               /\ raced' = [raced EXCEPT ![h] =
                              @ \/ \E u \in Threads \ {t} : Counting(u, h)]
               /\ UNCHANGED loc
          ELSE /\ Return(t)
               /\ UNCHANGED <<sent, raced>>
    /\ UNCHANGED <<ncalls, nrecv, panicked, tunnelVars, dnsVars, tableVars,
                   sockVars, rdgram, doh, vifCloses, listenerVars, rcvd,
                   traffic, uplog, cause>>

\* The log after one more upload; toTrue: it is redirected to the true
\* resolver (lines 175-177).
LogUpload(l, data, toTrue) ==
    IF ~l.pure \/ ~toTrue THEN OtherUploads
    ELSE [l EXCEPT
            !.first = IF @ = -2 THEN queryid(data) ELSE @,
            !.mixed = \/ @
                      \/ queryid(data) < 0
                      \/ l.first # -2 /\ queryid(data) # l.first]

\* A handler that records the id of every query and never marks the flow.
NoteQueryLatest(t, data) ==
    IF queryid(data) < 0 THEN t ELSE [t EXCEPT !.queryid = Uint16(queryid(data))]

\* The tracker after the query-id bookkeeping of a query sent to the true
\* resolver (lines 178-185).
NoteQuery(t, data) ==
    LET id == queryid(data) IN
    IF id < 0 THEN [t EXCEPT !.complex = TRUE]
    ELSE IF t.upload = 0 THEN [t EXCEPT !.queryid = Uint16(id)]
    ELSE IF t.queryid # Uint16(id) THEN [t EXCEPT !.complex = TRUE]
    ELSE t

\* Where ReceiveTo goes after its routing: the DNS-transport branch has no
\* return of its own, so all three branches reach `t.upload += ...`.
AfterRoute(viaDoh) == "rt_load"

\* Lines 170-189: pick the branch by destination and transport.
ReceiveToRoute(t) ==
    /\ Alive /\ pc[t] = "rt_route"
    /\ LET h == loc[t].h
           fake == AddrEq(loc[t].addr, FakeDNS)
           viaDoh == fake /\ udns # Nil
       IN /\ Goto(t, AfterRoute(viaDoh))
          /\ loc' = [loc EXCEPT ![t].viaDoh = viaDoh,
                                ![t].addr = IF fake /\ ~viaDoh
                                            THEN TrueDNS ELSE @]
          /\ doh' = IF viaDoh
                    THEN doh \cup {[id |-> loc[t].id, h |-> h,
                                    stage |-> "query", seen |-> loc[t].seen]}
                    ELSE doh
          /\ tr' = IF viaDoh THEN tr
                   ELSE IF fake
                   THEN [tr EXCEPT ![h] = NoteQuery(@, loc[t].data)]
                   ELSE [tr EXCEPT ![h].complex = TRUE]
          /\ traffic' = IF traffic[h] = "none"
                        THEN [traffic EXCEPT ![h] = "plain"] ELSE traffic
          /\ uplog' = [uplog EXCEPT
                         ![h] = LogUpload(@, loc[t].data, fake /\ ~viaDoh)]
    /\ UNCHANGED <<ncalls, nrecv, panicked, tunnelVars, dnsVars, lock, used,
                   udpConns, sockVars, rdgram, vifCloses, listenerVars, sent,
                   rcvd, raced, cause>>

\* t.upload += int64(len(data)): the load
ReceiveToLoad(t) ==
    /\ Alive /\ pc[t] = "rt_load"
    /\ Goto(t, "rt_store")
    /\ loc' = [loc EXCEPT ![t].tmp = tr[loc[t].h].upload]
    /\ UNCHANGED <<ncalls, nrecv, panicked, tunnelVars, dnsVars, flowVars>>

\* t.upload += int64(len(data)): the store
ReceiveToStore(t) ==
    /\ Alive /\ pc[t] = "rt_store"
    /\ Goto(t, "rt_write")
    /\ tr' = [tr EXCEPT ![loc[t].h].upload = loc[t].tmp + Len(loc[t].data)]
    /\ UNCHANGED <<callVars, tunnelVars, dnsVars, lock, used, udpConns,
                   sockVars, rdgram, doh, vifCloses, listenerVars, histVars>>

\* _, err := t.conn.WriteTo(data, addr), and ReceiveTo returns nil or the
\* write's error.
ReceiveToWrite(t) ==
    /\ Alive /\ pc[t] = "rt_write"
    /\ Return(t)
    /\ UNCHANGED <<ncalls, nrecv, panicked, tunnelVars, dnsVars, flowVars>>

\* -------------------------------------------------- udpHandler.Close (udp.go)
\* The stack closes a flow it has opened.
BeginClose(t, h) ==
    /\ h \in used /\ ~Connecting(h)
    /\ BeginCall(t, "cl_vif")
    /\ loc' = [loc EXCEPT ![t] = [NoLoc EXCEPT !.h = h]]
    /\ UNCHANGED <<nrecv, panicked, tunnelVars, dnsVars, flowVars>>

\* conn.Close()
CloseVif(p) ==
    /\ Alive /\ pc[p] = "cl_vif"
    /\ Goto(p, "cl_lock")
    /\ vifCloses' = [vifCloses EXCEPT ![HandleOf(p)] = @ + 1]
    /\ UNCHANGED <<callVars, tunnelVars, dnsVars, tableVars, sockVars, rdgram,
                   doh, listenerVars, histVars>>

\* A Close that tears down whether or not the tracker is in the table.
TearsDownAlways(ok) == TRUE

\* `if t, ok := h.udpConns[conn]; ok { ... }`: whether Close tears down.
TearsDown(ok) == ok

\* h.Lock(); defer h.Unlock(); t, ok := h.udpConns[conn]; with no tracker the
\* deferred h.Unlock() runs and Close returns.
CloseLock(p) ==
    /\ Alive /\ pc[p] = "cl_lock" /\ lock = None
    /\ IF TearsDown(HandleOf(p) \in udpConns)
       THEN /\ lock' = p
            /\ Goto(p, "cl_sock")
            /\ UNCHANGED loc
       ELSE /\ lock' = lock
            /\ Return(p)
    /\ UNCHANGED <<ncalls, nrecv, panicked, tunnelVars, dnsVars, used,
                   udpConns, tr, sockVars, rdgram, doh, vifCloses,
                   listenerVars, histVars>>

\* With the lock held: t.conn.Close();
\* h.listener.OnUDPSocketClosed(&UDPSocketSummary{t.upload, t.download, ..});
\* delete(h.udpConns, conn); the deferred h.Unlock(); Close returns.
CloseTearDown(p) ==
    /\ Alive /\ pc[p] = "cl_sock" /\ lock = p
    /\ LET h == HandleOf(p) IN
          /\ sock' = [sock EXCEPT ![h] = "closed"]
          /\ sockCloses' = [sockCloses EXCEPT ![h] = @ + 1]
          /\ nsum' = [nsum EXCEPT ![h] = @ + 1]
          /\ summary' = [summary EXCEPT ![h] = UDPSocketSummary(tr[h])]
          /\ udpConns' = udpConns \ {h}
          /\ raced' = [raced EXCEPT ![h] =
                         \/ @
                         \/ pc[h] = "fi_proc"
                         \/ \E u \in Threads : Counting(u, h)]
    /\ lock' = None
    /\ Return(p)
    /\ UNCHANGED <<ncalls, nrecv, panicked, tunnelVars, dnsVars, used, tr,
                   rdgram, doh, vifCloses, sent, rcvd, traffic, uplog,
                   cause>>

\* --------------------------------------------- udpHandler.fetchUDPInput
\* t.conn.SetDeadline(...); n, addr, err := t.conn.ReadFrom(buf): a datagram.
FetchRead(h) ==
    /\ Alive /\ pc[h] = "fi_read"
    /\ sock[h] = "open" /\ nrecv < MaxRecv
    /\ \E data \in Payloads, from \in Senders :
          /\ rdgram' = [rdgram EXCEPT ![h] =
                          [data |-> data, from |-> from, src |-> from,
                           simple |-> FALSE]]
          /\ rcvd' = [rcvd EXCEPT ![h] = @ + Len(data)]
          /\ traffic' = IF AddrEq(from, TrueDNS)
                        THEN [traffic EXCEPT ![h] = "dns"] ELSE traffic
    /\ nrecv' = nrecv + 1
    /\ Goto(h, "fi_proc")
    /\ UNCHANGED <<loc, ncalls, panicked, tunnelVars, dnsVars, tableVars,
                   sockVars, doh, vifCloses, listenerVars, sent, raced,
                   uplog, cause>>

\* ReadFrom fails: the deadline passed, or the socket failed or was closed.
\* `if err != nil { return }`, and the deferred h.Close(conn) starts.
FetchReadError(h) ==
    /\ Alive /\ pc[h] = "fi_read"
    /\ cause' = [cause EXCEPT ![h] = "rerr"]
    /\ Goto(h, "cl_vif")
    /\ UNCHANGED <<callVars, tunnelVars, dnsVars, tableVars, sockVars, rdgram,
                   doh, vifCloses, listenerVars, sent, rcvd, raced, traffic,
                   uplog>>

\* A read task that never marks a flow complex.
ClassifiedNever(t, data, from) == t

\* Lines 106-122: the tracker's complex flag after a datagram of n bytes in
\* buf from `from`.
Classified(t, data, from) ==
    IF AddrEq(from, TrueDNS)
    THEN IF Len(data) < 2 THEN [t EXCEPT !.complex = TRUE]
         ELSE IF t.queryid # Uint16(queryid(data))
              THEN [t EXCEPT !.complex = TRUE]
              ELSE t
    ELSE [t EXCEPT !.complex = TRUE]

\* A read task that forwards every datagram with its sender's address.
RewrittenNever(from) == from

\* Lines 106-108: the source the datagram is forwarded with.
Rewritten(from) == IF AddrEq(from, TrueDNS) THEN FakeDNS ELSE from

\* Lines 105-123: classify the datagram, t.download += int64(n).
FetchProcess(h) ==
    /\ Alive /\ pc[h] = "fi_proc"
    /\ Goto(h, "fi_write")
    /\ tr' = [tr EXCEPT ![h] =
                [Classified(@, rdgram[h].data, rdgram[h].from)
                   EXCEPT !.download = @ + Len(rdgram[h].data)]]
    /\ rdgram' = [rdgram EXCEPT
                    ![h].src = Rewritten(rdgram[h].from),
                    ![h].simple = ~Classified(tr[h], rdgram[h].data,
                                              rdgram[h].from).complex]
    /\ traffic' = IF traffic[h] = "none"
                  THEN [traffic EXCEPT ![h] = "plain"] ELSE traffic
    /\ UNCHANGED <<callVars, tunnelVars, dnsVars, lock, used, udpConns,
                   sockVars, doh, vifCloses, listenerVars, sent, rcvd, raced,
                   uplog, cause>>

\* A read task that reads again whatever the flag says.
AfterWriteReadAgain(complex) == "fi_read"

\* Lines 129-133: after a write that succeeded, leave the loop or read again.
AfterWrite(complex) == IF complex THEN "fi_read" ELSE "cl_vif"

\* _, err = conn.WriteFrom(buf[:n], udpaddr), and what follows it.
FetchWrite(h) ==
    /\ Alive /\ pc[h] = "fi_write"
    /\ rdgram' = [rdgram EXCEPT ![h] = NoDgram]
    /\ \E ok \in BOOLEAN :
          IF ~ok
          THEN /\ Goto(h, "cl_vif")
               /\ cause' = [cause EXCEPT ![h] = "werr"]
          ELSE /\ Goto(h, AfterWrite(tr[h].complex))
               /\ cause' = IF AfterWrite(tr[h].complex) = "cl_vif"
                           THEN [cause EXCEPT ![h] = "oneshot"] ELSE cause
    /\ UNCHANGED <<callVars, tunnelVars, dnsVars, tableVars, sockVars, doh,
                   vifCloses, listenerVars, sent, rcvd, raced, traffic,
                   uplog>>

\* ------------------------------------------------- udpHandler.doDoh (udp.go)
\* The transport doDoh queries: h.dns as it is when the goroutine runs.
QueryTransport(d) == udns

\* resp, err := h.dns.Query(data): a nil h.dns panics.
DohQuery(d) ==
    /\ Alive /\ d \in doh /\ d.stage = "query"
    /\ IF QueryTransport(d) = Nil
       THEN /\ panicked' = TRUE
            /\ doh' = doh
       ELSE /\ panicked' = panicked
            /\ \E ok \in BOOLEAN :
                  doh' = (doh \ {d}) \cup
                         (IF ok THEN {[d EXCEPT !.stage = "write"]} ELSE {})
    /\ UNCHANGED <<pc, loc, ncalls, nrecv, tunnelVars, dnsVars, tableVars,
                   sockVars, rdgram, vifCloses, listenerVars, histVars>>

\* conn.WriteFrom(resp, &h.fakedns)
DohWrite(d) ==
    /\ Alive /\ d \in doh /\ d.stage = "write"
    /\ doh' = doh \ {d}
    /\ UNCHANGED <<callVars, pc, tunnelVars, dnsVars, tableVars, sockVars,
                   rdgram, vifCloses, listenerVars, histVars>>

\* ------------------------------------------------------------------- Next
Construct ==
    \/ NewEndpoint \/ CreateNIC \/ SetPromiscuousMode
    \/ ResolveUDPFake \/ ResolveUDPTrue \/ RegisterUDP
    \/ ResolveTCPFake \/ ResolveTCPTrue \/ RegisterTCP
    \/ EnableNIC

SetDNS ==
    \/ \E t \in Threads, d \in DnsValues : BeginSetDNS(t, d)
    \/ \E p \in Threads \cup {Ctor} :
          SetDNSTunnel(p) \/ SetDNSUdp(p) \/ SetDNSTcp(p)

Connect ==
    \/ \E t \in Threads, h \in Handles : BeginConnect(t, h)
    \/ \E t \in Threads : ConnectListen(t) \/ ConnectInsert(t) \/ ConnectGo(t)

ReceiveTo ==
    \/ \E t \in Threads, h \in Handles, data \in Payloads, addr \in Dests :
          BeginReceiveTo(t, h, data, addr)
    \/ \E t \in Threads :
          \/ ReceiveToLookup(t) \/ ReceiveToRoute(t) \/ ReceiveToLoad(t)
          \/ ReceiveToStore(t) \/ ReceiveToWrite(t)

Close ==
    \/ \E t \in Threads, h \in Handles : BeginClose(t, h)
    \/ \E p \in Threads \cup Handles :
          CloseVif(p) \/ CloseLock(p) \/ CloseTearDown(p)

fetchUDPInput ==
    \E h \in Handles :
        FetchRead(h) \/ FetchReadError(h) \/ FetchProcess(h) \/ FetchWrite(h)

doDoh == \E d \in doh : DohQuery(d) \/ DohWrite(d)

\* The tunnel: its construction, and SetDNS calls on the constructed tunnel.
NextTunnel == Construct \/ SetDNS

SpecTunnel == Init /\ [][NextTunnel]_vars

\* A tunnel NewIntraTunnel has returned, made with an initial transport or
\* without one.
InitFlows ==
    /\ pc = [p \in Procs |-> IF p = Ctor THEN "done"
                             ELSE IF p \in Threads THEN "idle" ELSE "fi_none"]
    /\ loc = [t \in Threads |-> NoLoc]
    /\ ncalls = 0
    /\ nrecv = 0
    /\ panicked = FALSE
    /\ nic = "enabled"
    /\ promisc = TRUE
    /\ udpReg = TRUE
    /\ tcpReg = TRUE
    /\ dohdns \in {Nil, "T1"}
    /\ tdns = dohdns
    /\ tcpdns = dohdns
    /\ udns = dohdns
    /\ lock = None
    /\ used = {}
    /\ udpConns = {}
    /\ tr = [h \in Handles |-> makeTracker]
    /\ sock = [h \in Handles |-> "none"]
    /\ rdgram = [h \in Handles |-> NoDgram]
    /\ doh = {}
    /\ sockCloses = [h \in Handles |-> 0]
    /\ vifCloses = [h \in Handles |-> 0]
    /\ nsum = [h \in Handles |-> 0]
    /\ summary = [h \in Handles |-> [up |-> 0, down |-> 0]]
    /\ sent = [h \in Handles |-> 0]
    /\ rcvd = [h \in Handles |-> 0]
    /\ raced = [h \in Handles |-> FALSE]
    /\ traffic = [h \in Handles |-> "none"]
    /\ uplog = [h \in Handles |-> NoUploads]
    /\ cause = [h \in Handles |-> None]

\* The UDP flow manager of a constructed tunnel.
Next ==
    \/ \E d \in DnsValues : Reassign(d)
    \/ Connect \/ ReceiveTo \/ Close \/ fetchUDPInput \/ doDoh

Spec == InitFlows /\ [][Next]_vars

\* The same, with a scheduler that runs some goroutine while one can run.
SpecFair == Spec /\ WF_vars(Next)

\* ================================================================ properties
\* Connect has put h's tracker into the table at some time.
Inserted(h) ==
    pc[h] # "fi_none" \/ \E t \in Threads : pc[t] = "co_go" /\ loc[t].h = h

\* Some process is inside Close for h.
InClose(h) ==
    \/ pc[h] \in {"cl_vif", "cl_lock", "cl_sock"}
    \/ \E t \in Threads :
          pc[t] \in {"cl_vif", "cl_lock", "cl_sock"} /\ loc[t].h = h

\* h was inserted and has been torn down.
TornDown(h) == Inserted(h) /\ h \notin udpConns

\* A SetDNS call is in progress.
InSetDNS == \E p \in Threads \cup {Ctor} : pc[p] \in {"sd_tunnel", "sd_udp", "sd_tcp"}

\* ------------------------------------------------------------------- C1
\* C1: a flow that was connected and then closed has delivered exactly one
\* summary to the listener (none while it is open), and when its calls and
\* its datagrams came one after the other, the summary's upload is the sum of
\* the payload lengths ReceiveTo was given for the flow and its download is
\* the sum of the byte counts its read task received.
C1_OneSummaryWithSums ==
    \A h \in Handles :
        /\ nsum[h] = (IF TornDown(h) THEN 1 ELSE 0)
        /\ (TornDown(h) /\ ~raced[h]) =>
              summary[h] = [up |-> sent[h], down |-> rcvd[h]]

\* A closed flow that carried bytes both ways, one call after the other.
C1_Witness ==
    \E h \in Handles :
        /\ TornDown(h) /\ ~raced[h]
        /\ sent[h] > 0 /\ rcvd[h] > 0 /\ sent[h] # rcvd[h]
        /\ summary[h] = [up |-> sent[h], down |-> rcvd[h]]

\* ------------------------------------------------------------------- C2
\* C2: however often Close runs for a flow, and whether or not a caller's
\* Close overlaps the read task's own, the listener is given the flow's
\* summary at most once and the flow's real socket is closed at most once,
\* and both happened exactly once when every Close of a connected flow is over.
C2_CloseIdempotent ==
    \A h \in Handles :
        /\ nsum[h] <= 1 /\ sockCloses[h] <= 1
        /\ (vifCloses[h] > 0 /\ Inserted(h) /\ ~InClose(h)) =>
              nsum[h] = 1 /\ sockCloses[h] = 1 /\ sock[h] = "closed"

\* Close ran twice or more for one connected flow, and all of them are over.
C2_Witness ==
    \E h \in Handles :
        /\ vifCloses[h] >= 2 /\ Inserted(h) /\ ~InClose(h)
        /\ nsum[h] = 1 /\ sockCloses[h] = 1

\* ------------------------------------------------------------------- C3
\* C3: a ReceiveTo call that handed its datagram to the DNS transport neither
\* changes the flow's upload counter nor writes to the flow's real socket.
C3_DohBypassesSocket ==
    [][\A t \in Threads :
          loc[t].viaDoh =>
             /\ pc[t] = "rt_store" =>
                   tr'[loc[t].h].upload = tr[loc[t].h].upload
             /\ ~(pc[t] = "rt_write" /\ pc'[t] = "idle")]_vars

\* ------------------------------------------------------------------- C4
\* C4: a ReceiveTo call that finds no tracker for its handle returns the lookup
\* error at once, and its step changes nothing: not the flow table, a tracker,
\* a real socket, the DNS transport, the queries in flight, the handles' side
\* or the listener.
C4_LookupErrorNoEffect ==
    [][\A t \in Threads :
          (pc[t] = "rt_lookup" /\ loc[t].h \notin udpConns
             /\ pc'[t] # "rt_lookup") =>
             /\ pc'[t] = "idle"
             /\ UNCHANGED <<udpConns, tr, sock, sockCloses, dnsVars, doh,
                            rdgram, vifCloses, nsum, summary, sent>>]_vars

\* ReceiveTo is at its lookup for a flow that was closed, or never connected.
C4_Witness ==
    \E t \in Threads :
        /\ pc[t] = "rt_lookup" /\ loc[t].h \notin udpConns /\ lock = None
        /\ nsum[loc[t].h] = 1

\* ------------------------------------------------------------------- C5
\* C5 as stated: a read task that classified a matching true-DNS response on a
\* flow that was not complex leaves its loop after the write toward the
\* virtual interface: it never goes back to read.
C5_OneShotAtReceipt ==
    [][\A h \in Handles :
          (pc[h] = "fi_write" /\ rdgram[h].simple) => pc'[h] # "fi_read"]_vars

\* C5, amended: when the write toward the virtual interface succeeded and the
\* flow is not complex at the test that follows the write, the read task
\* leaves its loop at once (no further receive, no deadline expiry), and when
\* it has finished the flow is torn down: the real socket closed, one summary
\* delivered, the tracker removed.
C5_OneShotAtTest ==
    /\ [][\A h \in Handles :
             /\ (pc[h] = "fi_write" /\ ~tr[h].complex /\ pc'[h] # "fi_write")
                   => pc'[h] = "cl_vif"
             /\ cause[h] = "oneshot" => (pc'[h] # "fi_read" /\ nrecv' = nrecv)
         ]_vars
    /\ [](\A h \in Handles :
             (pc[h] = "fi_done" /\ cause[h] = "oneshot") =>
                /\ h \notin udpConns /\ sock[h] = "closed" /\ nsum[h] = 1
                /\ sockCloses[h] = 1)

\* A read task that left by the one-shot exit and has finished its teardown.
C5_Witness ==
    \E h \in Handles :
        /\ pc[h] = "fi_done" /\ cause[h] = "oneshot"
        /\ nsum[h] = 1 /\ summary[h].down > 0 /\ summary[h].up > 0

\* ------------------------------------------------------------------- C6
\* C6: a flow that has processed a datagram and has seen neither a ReceiveTo
\* to the fake-DNS address nor a datagram from the true-DNS address is
\* complex, and the read task of a flow without such traffic never leaves by
\* the one-shot exit.
C6_PlainFlowComplex ==
    \A h \in Handles :
        /\ traffic[h] = "plain" => tr[h].complex
        /\ traffic[h] # "dns" => cause[h] # "oneshot"
        /\ (traffic[h] = "plain" /\ pc[h] = "fi_write") => ~rdgram[h].simple

\* A flow without DNS traffic whose read task forwarded a datagram, read
\* again and then left on an error.
C6_Witness ==
    \E h \in Handles :
        /\ traffic[h] = "plain" /\ tr[h].complex
        /\ rcvd[h] > 0 /\ sent[h] > 0 /\ cause[h] = "rerr"

\* ------------------------------------------------------------------- C7
\* C7: once the tunnel, the UDP handler or the TCP handler holds a transport,
\* it never holds none again.
C7_NeverAbsentAgain ==
    [][/\ tdns # Nil => tdns' # Nil
       /\ udns # Nil => udns' # Nil
       /\ tcpdns # Nil => tcpdns' # Nil]_vars

\* ------------------------------------------------------------------- C8
\* C8: whenever no SetDNS call is in progress on a constructed tunnel, the tunnel, the UDP handler and
\* the TCP handler hold the same transport, and the tunnel holds none only if
\* SetDNS was never called.
C8_SameTransportEverywhere ==
    (pc[Ctor] = "done" /\ ~InSetDNS) =>
       /\ tdns = udns /\ tdns = tcpdns
       /\ tdns = Nil => (ncalls = 0 /\ dohdns = Nil)

\* ------------------------------------------------------------------- C9
\* C9: a query handed to doDoh is submitted to a transport the handler held
\* between the start of its ReceiveTo call and the submission, and a
\* reassignment changes no flow: not the table, a tracker, a real socket nor
\* the position of a read task.
C9_NextQueryUsesNewTransport ==
    [][/\ \A d \in doh :
             (d.stage = "query" /\ ncalls' = ncalls
                /\ (d \notin doh' \/ panicked' # panicked)) =>
                /\ QueryTransport(d) \in d.seen \ {Nil}
                /\ ~panicked'
       /\ udns' # udns =>
             /\ UNCHANGED <<udpConns, tr, sock, sockCloses, rdgram>>
             /\ \A h \in Handles : pc'[h] = pc[h]]_vars

C11_ConnectFailureRegistersNothing ==
    /\ [][\A t \in Threads :
             (pc[t] = "co_listen" /\ pc'[t] # "co_listen"
                /\ sock'[loc[t].h] # "open") =>
                /\ pc'[t] = "idle"
                /\ UNCHANGED <<udpConns, tr, sock, lock>>
                /\ \A h \in Handles : pc'[h] = pc[h]]_vars
    /\ [][\A h \in Handles :
             (pc[h] = "fi_none" /\ pc'[h] # "fi_none") =>
                (h \in udpConns /\ tr[h] = makeTracker /\ sock[h] = "open")
         ]_vars
    /\ [](\A h \in Handles :
             (h \in used /\ ~Connecting(h) /\ sock[h] = "none") =>
                (h \notin udpConns /\ pc[h] = "fi_none"))

\* A Connect that failed has returned, and a call was made for its handle.
C11_Witness ==
    \E h \in Handles :
        /\ h \in used /\ ~Connecting(h) /\ sock[h] = "none"
        /\ h \notin udpConns /\ pc[h] = "fi_none"
        /\ \E t \in Threads : pc[t] = "rt_lookup" /\ loc[t].h = h

\* ------------------------------------------------------------------ C12
\* C12: the constructor returns a tunnel only when every step succeeded: a
\* returned tunnel has its NIC enabled, promiscuous mode on and both handlers
\* registered; a constructor that has returned an error stays so, and its NIC
\* is not enabled; and the NIC is enabled in no state before the constructor
\* returns the tunnel.
C12_ConstructionAllOrError ==
    /\ [](/\ pc[Ctor] = "done" =>
                (nic = "enabled" /\ promisc /\ udpReg /\ tcpReg)
          /\ pc[Ctor] # "done" => nic # "enabled")
    /\ [][pc[Ctor] \in {"failed", "done"} => pc'[Ctor] = pc[Ctor]]_vars

\* The constructor failed after the NIC was created and the UDP handler was
\* registered: the NIC is left disabled.
C12_Witness ==
    pc[Ctor] = "failed" /\ nic = "disabled" /\ promisc /\ udpReg /\ ~tcpReg

\* ------------------------------------------------------------------ C13
\* C13: in every step, a tracker that is complex stays complex, and its
\* upload and download counters do not decrease.
C13_TrackerMonotonic ==
    [][\A h \in Handles :
          /\ tr[h].complex => tr'[h].complex
          /\ tr'[h].upload >= tr[h].upload
          /\ tr'[h].download >= tr[h].download]_vars

\* ------------------------------------------------------------------ C14
\* The positions whose next statement works on a real socket (open, read,
\* write, close) or on the handle's side toward the virtual interface.
SocketIO == {"co_listen", "rt_write", "cl_vif", "cl_sock", "fi_read", "fi_write"}

\* C14: the process that holds the handler's lock is never at a statement
\* that works on a real socket or on the handle's virtual-interface side.
C14_NoLockAcrossIO ==
    \A p \in Threads \cup Handles : lock = p => pc[p] \notin SocketIO

\* ------------------------------------------------------------------ C15
\* C15: a read task that has left its loop, by whichever path, runs the
\* teardown of Close once, and its flow comes to be absent: the tracker out
\* of the table, the real socket closed, one summary delivered.
C15_ReadTaskTearsDown ==
    /\ [](\A h \in Handles :
             /\ nsum[h] <= 1
             /\ pc[h] = "fi_done" => (cause[h] # None /\ vifCloses[h] >= 1))
    /\ \A h \in Handles :
          (cause[h] # None) ~>
             (h \notin udpConns /\ sock[h] = "closed" /\ nsum[h] = 1)

\* ------------------------------------------------------------------ C16
\* C16: for a flow all of whose uploads, made one after the other, went to
\* the fake resolver while no transport was set: the recorded query id is the
\* id of the first payload; the flow is complex if a payload was shorter than
\* 2 bytes or a later payload had another id, and, as long as the read task
\* has received nothing, only then; and the routing step of such an upload
\* sets the destination of the write to the true resolver.
C16_QueryIdClassification ==
    /\ [](\A h \in Handles :
             (uplog[h].pure /\ ~raced[h]) =>
                /\ uplog[h].first >= 0 => tr[h].queryid = uplog[h].first
                /\ uplog[h].mixed => tr[h].complex
                /\ (tr[h].complex /\ rcvd[h] = 0) => uplog[h].mixed)
    /\ [][\A t \in Threads :
             (pc[t] = "rt_route" /\ pc'[t] # "rt_route"
                /\ AddrEq(loc[t].addr, FakeDNS) /\ udns = Nil) =>
                (loc'[t].addr = TrueDNS /\ ~loc'[t].viaDoh)]_vars

\* Two uploads to the fake resolver, the first with id 0x1234, the second
\* with another id or too short: the id of the first is kept and the flow is
\* complex.
C16_Witness ==
    \E h \in Handles :
        /\ uplog[h].pure /\ ~raced[h] /\ rcvd[h] = 0
        /\ uplog[h].first = 4660 /\ uplog[h].mixed
        /\ tr[h].queryid = 4660 /\ tr[h].complex

\* ------------------------------------------------------------------ C17
\* C17: the datagram a read task is about to write toward the virtual
\* interface has the fake resolver as its source when it came from the true
\* resolver, and its sender otherwise, so never the true resolver; and the
\* step that classifies a datagram leaves the flow complex when the sender is
\* not the true resolver, when the datagram is shorter than 2 bytes, or when
\* its id is not the tracker's recorded id.
C17_SourceRewriting ==
    /\ [](\A h \in Handles :
             pc[h] = "fi_write" =>
                /\ rdgram[h].src = (IF rdgram[h].from = TrueDNS
                                    THEN FakeDNS ELSE rdgram[h].from)
                /\ rdgram[h].src # TrueDNS)
    /\ [][\A h \in Handles :
             (pc[h] = "fi_proc" /\ pc'[h] = "fi_write"
                /\ (\/ rdgram[h].from # TrueDNS
                    \/ Len(rdgram[h].data) < 2
                    \/ queryid(rdgram[h].data) # tr[h].queryid)) =>
                tr'[h].complex]_vars

\* A response from the true resolver is about to be forwarded as one from
\* the fake resolver.
C17_Witness ==
    \E h \in Handles :
        /\ pc[h] = "fi_write" /\ rdgram[h].from = TrueDNS
        /\ rdgram[h].src = FakeDNS /\ Len(rdgram[h].data) >= 2

\* ------------------------------------------------------------------ C18
\* C18: whenever no ReceiveTo call is between its lookup and its counter
\* update, the upload counter is the sum of the payload lengths of the calls
\* that found the tracker; and whenever the read task is not between a
\* receive and its counter update, the download counter is the sum of the
\* lengths received.
C18_NoLostUpdate ==
    \A h \in Handles :
        /\ (\A t \in Threads : ~Counting(t, h)) => tr[h].upload = sent[h]
        /\ pc[h] # "fi_proc" => tr[h].download = rcvd[h]

\* ------------------------------------------------------------------ C19
\* C19: no step writes toward the virtual interface on a handle that Close
\* has released: not the read task's WriteFrom, not doDoh's.
C19_NoWriteAfterRelease ==
    [][/\ \A h \in Handles :
             (pc[h] = "fi_write" /\ pc'[h] # "fi_write") => vifCloses[h] = 0
       /\ \A d \in doh :
             (d.stage = "write" /\ d \notin doh') => vifCloses[d.h] = 0]_vars

\* ------------------------------------------------------------------ C20
\* C20: a ReceiveTo call that found the tracker stores the upload counter
\* only while no summary has been delivered for the flow, and writes to the
\* real socket only while it is open.
C20_NoActionOnTornDownFlow ==
    [][\A t \in Threads :
          /\ (pc[t] = "rt_store" /\ pc'[t] # "rt_store") =>
                nsum[loc[t].h] = 0
          /\ (pc[t] = "rt_write" /\ pc'[t] # "rt_write") =>
                sock[loc[t].h] = "open"]_vars

====
